---------------------------- MODULE Spec2Model ----------------------------
(***************************************************************************)
(* OLLYSPA v2.5 (src/assets/js/ollyspa.core.js): the reactive store, the   *)
(* scoped expression evaluator, the directive handlers (o-if, o-for,       *)
(* o-model, o-click, {{ }} interpolation), the directive orchestrator and  *)
(* the route/data loaders, as a state machine.                             *)
(*                                                                         *)
(* JavaScript values are tagged records of one shape, so that any two      *)
(* values can be compared.  The DOM is a sequence of nodes; a node's id is *)
(* its index, node 1 is the #app container.  An element and its text       *)
(* child are one node (field text); a text or attribute value is a         *)
(* sequence of string pieces, a piece being either plain text or one       *)
(* whole {{ expr }} placeholder.                                           *)
(***************************************************************************)
EXTENDS Integers, Sequences, FiniteSets, TLC

VARIABLES
    state,      \* the store record behind the proxy (fields data, route, theme, ...)
    globals,    \* properties of the global object created by sloppy-mode assignments
    handlers,   \* the subscriber list: the root node of each registered render closure
    dom,        \* the nodes ever created (attached or detached)
    pending,    \* fetches in flight: the data load and the route loads
    loads,      \* number of route fetches issued so far
    shown,      \* the route whose response filled the container last ("" before any)
    last        \* what the latest operation did (history, for the properties)

vars == <<state, globals, handlers, dom, pending, loads, shown, last>>

-----------------------------------------------------------------------------
(* Bounds of the model *)

MaxLoads == 2      \* route fetches issued (the initial one included)

-----------------------------------------------------------------------------
(* JavaScript values *)

NoProps == [n \in {} |-> ""]

Val(t, s, o, l) == [t |-> t, s |-> s, o |-> o, l |-> l]
Undef   == Val("undef", "", NoProps, <<>>)
Null    == Val("null", "", NoProps, <<>>)
Str(s)  == Val("str", s, NoProps, <<>>)
Num(s)  == Val("num", s, NoProps, <<>>)       \* the number written s
Obj(o)  == Val("obj", "", o, <<>>)            \* a plain object with own properties o
List(l) == Val("list", "", NoProps, l)        \* an array

Nullish(v) == v.t \in {"undef", "null"}

\* JavaScript truthiness (the !! of processIf, the || of processFor)
Truthy(v) ==
    CASE v.t \in {"undef", "null"} -> FALSE
      [] v.t = "str" -> v.s # ""
      [] v.t = "num" -> v.s # "0"
      [] OTHER -> TRUE

RECURSIVE JoinStrings(_)
JoinStrings(ss) ==
    IF ss = <<>> THEN ""
    ELSE IF Len(ss) = 1 THEN ss[1]
    ELSE ss[1] \o "," \o JoinStrings(Tail(ss))

\* String(v) for a value that is not an array
ScalarToString(v) ==
    CASE v.t = "undef" -> "undefined"
      [] v.t = "null" -> "null"
      [] v.t = "obj" -> "[object Object]"
      [] OTHER -> v.s

\* String(v): an array joins its elements with commas, null and undefined as ""
JsString(v) ==
    IF v.t = "list"
    THEN JoinStrings([i \in 1..Len(v.l) |->
                        IF Nullish(v.l[i]) THEN "" ELSE ScalarToString(v.l[i])])
    ELSE ScalarToString(v)

Put(f, k, v) == [x \in (DOMAIN f) \cup {k} |-> IF x = k THEN v ELSE f[x]]

HasProp(v, n) == v.t = "obj" /\ n \in DOMAIN v.o
GetProp(v, n) == IF HasProp(v, n) THEN v.o[n] ELSE Undef

-----------------------------------------------------------------------------
(* Expressions: the strings carried by directive attributes and            *)
(* placeholders.  k = "none": the attribute is absent; "empty": the        *)
(* attribute is present with the value "" ; "path": a dotted path          *)
(* a.b.c read as a value; "syn": a string that does not compile;           *)
(* "assign": the statement  a.b.c = <literal v>.                           *)

Expr(k, p, v) == [k |-> k, p |-> p, v |-> v]
NoExpr     == Expr("none", <<>>, Undef)
EmptyExpr  == Expr("empty", <<>>, Undef)
SynErr     == Expr("syn", <<>>, Undef)
Path(p)    == Expr("path", p, Undef)
Assign(p, v) == Expr("assign", p, v)

\* !attr of the handlers: getAttribute gave null or ""
Missing(e) == e.k \in {"none", "empty"}

Res(ok, v) == [ok |-> ok, v |-> v]
Threw == Res(FALSE, Undef)

\* with(data) throws a TypeError when data is null or undefined
WithThrows(st) == Nullish(st.o["data"])

\* The parameters every compiled function has: state = proxy, data = proxy.data
BaseParams(st) == [state |-> st, data |-> st.o["data"]]

\* Identifier lookup in  function(params){ with(state){ with(data){ ... } } } :
\* data's properties first, then the store's fields, then the function's
\* parameters, then the global object; otherwise a ReferenceError.
Resolve(st, gl, params, n) ==
    LET d == st.o["data"] IN
    IF HasProp(d, n) THEN Res(TRUE, d.o[n])
    ELSE IF HasProp(st, n) THEN Res(TRUE, st.o[n])
    ELSE IF n \in DOMAIN params THEN Res(TRUE, params[n])
    ELSE IF n \in DOMAIN gl THEN Res(TRUE, gl[n])
    ELSE Threw

\* v.a.b...: a property read of null or undefined is a TypeError
RECURSIVE Walk(_, _)
Walk(v, rest) ==
    IF rest = <<>> THEN Res(TRUE, v)
    ELSE IF Nullish(v) THEN Threw
    ELSE Walk(GetProp(v, Head(rest)), Tail(rest))

\* The compiled function of an expression, called: its value, or that it threw
RunExpr(st, gl, params, e) ==
    IF e.k # "path" THEN Threw                  \* does not compile
    ELSE IF WithThrows(st) THEN Threw
    ELSE LET h == Resolve(st, gl, params, Head(e.p)) IN
         IF h.ok THEN Walk(h.v, Tail(e.p)) ELSE Threw

\* evalInContext: every failure is caught and gives undefined
evalInContext(st, gl, e) ==
    LET r == RunExpr(st, gl, BaseParams(st), e) IN
    IF r.ok THEN r.v ELSE Undef

\* store with the property at loc (a path from the store record) set to v
RECURSIVE SetAt(_, _, _)
SetAt(obj, loc, v) ==
    IF Len(loc) = 1 THEN [obj EXCEPT !.o = Put(obj.o, loc[1], v)]
    ELSE [obj EXCEPT !.o = Put(obj.o, loc[1], SetAt(obj.o[loc[1]], Tail(loc), v))]

\* The proxy's set trap, the assignment only (line 24); its notify() is the caller's
ProxySet(st, prop, value) == SetAt(st, <<prop>>, value)

\* Where the head identifier of an assignment target lives: a path from the
\* store record (<<>> is the proxy itself), or a parameter, a global, nowhere.
HeadLoc(st, gl, params, n) ==
    LET d == st.o["data"] IN
    IF HasProp(d, n) THEN [kind |-> "store", loc |-> <<"data", n>>]
    ELSE IF HasProp(st, n) THEN [kind |-> "store", loc |-> <<n>>]
    ELSE IF n = "state" THEN [kind |-> "store", loc |-> <<>>]
    ELSE IF n \in DOMAIN params THEN [kind |-> "param", loc |-> <<>>]
    ELSE IF n \in DOMAIN gl THEN [kind |-> "global", loc |-> <<>>]
    ELSE [kind |-> "unbound", loc |-> <<>>]

AssignRes(threw, st, gl, sets) == [threw |-> threw, st |-> st, gl |-> gl, sets |-> sets]

\* The assignment p = val once its target is resolved: h is where the head
\* identifier lives, loc the target as a path from the store record, base
\* the object whose property is written
AssignAt(st, gl, p, val, h, loc, base) ==
    IF Len(p) = 1 THEN
        CASE h.kind = "store" /\ Len(h.loc) = 2 -> AssignRes(FALSE, SetAt(st, h.loc, val), gl, 0)
          [] h.kind = "store" /\ Len(h.loc) = 1 -> AssignRes(FALSE, ProxySet(st, Head(p), val), gl, 1)
          [] h.kind = "store" /\ Len(h.loc) = 0 -> AssignRes(FALSE, st, gl, 0)  \* the parameter state
          [] h.kind = "param" -> AssignRes(FALSE, st, gl, 0)
          [] OTHER -> AssignRes(FALSE, st, Put(gl, Head(p), val), 0)
    ELSE IF ~base.ok \/ Nullish(base.v) THEN AssignRes(TRUE, st, gl, 0)
    ELSE IF h.kind # "store" \/ base.v.t # "obj" THEN AssignRes(FALSE, st, gl, 0)
    ELSE IF Len(loc) = 1 THEN AssignRes(FALSE, ProxySet(st, loc[1], val), gl, 1)
    ELSE AssignRes(FALSE, SetAt(st, loc, val), gl, 0)

\* The object an assignment to p writes a property of
AssignBase(st, gl, params, p, h) ==
    IF h.kind = "store" THEN Walk(st, SubSeq(h.loc \o Tail(p), 1, Len(h.loc) + Len(p) - 2))
    ELSE IF Len(p) = 1 \/ h.kind = "unbound" THEN Threw
    ELSE Walk(Resolve(st, gl, params, Head(p)).v, SubSeq(p, 2, Len(p) - 1))

AssignFrom(st, gl, params, p, val, h) ==
    AssignAt(st, gl, p, val, h, h.loc \o Tail(p), AssignBase(st, gl, params, p, h))

\* with(state){ with(data){ p = val; } } run with state = proxy: the store and
\* the globals afterwards, whether it threw, and how many times the proxy's
\* set trap ran (sets). A write to a field of the proxy goes through the trap;
\* a write below data is a plain property write; an unbound bare name becomes
\* a global; a property write on a primitive is ignored.
RunAssign(st, gl, params, p, val) ==
    IF WithThrows(st) THEN AssignRes(TRUE, st, gl, 0)
    ELSE AssignFrom(st, gl, params, p, val, HeadLoc(st, gl, params, Head(p)))

-----------------------------------------------------------------------------
(* Placeholders.  A piece of text is a placeholder iff it is one of these  *)
(* strings (what the regular expression /\{\{\s*(.+?)\s*\}\}/ finds in     *)
(* it), and PhTable gives the expression between its markers.              *)

PhTable ==
    [s \in {"{{ welcome }}", "{{ theme }}", "{{ item.name }}", "{{ name }}",
            "{{ item }}", "{{ user.name }}", "{{ 1 + }}"} |->
        CASE s = "{{ welcome }}"   -> Path(<<"welcome">>)
          [] s = "{{ item }}"      -> Path(<<"item">>)
          [] s = "{{ theme }}"     -> Path(<<"theme">>)
          [] s = "{{ item.name }}" -> Path(<<"item", "name">>)
          [] s = "{{ name }}"      -> Path(<<"name">>)
          [] s = "{{ user.name }}" -> Path(<<"user", "name">>)
          [] OTHER                 -> SynErr]

IsPh(s) == s \in DOMAIN PhTable

\* The placeholder string of an expression ("{{ " + text + " }}")
PhString(e) ==
    IF \E s \in DOMAIN PhTable : PhTable[s] = e
    THEN CHOOSE s \in DOMAIN PhTable : PhTable[s] = e
    ELSE "{{ ? }}"

\* val === undefined ? '' : val, as String.prototype.replace stringifies it
Shown(v) == IF v.t = "undef" THEN "" ELSE JsString(v)

-----------------------------------------------------------------------------
(* The DOM *)

Container == 1                  \* document.getElementById('app')

NoFor == [k |-> "none", item |-> "", list |-> NoExpr]
BadFor == [k |-> "bad", item |-> "", list |-> NoExpr]    \* not "<ident> in <expr>"
For(item, list) == [k |-> "for", item |-> item, list |-> list]

\* An element as markup gives it: no parent yet, no listeners, value ""
El(tag, oif, ofor, omodel, oclick, title, text) ==
    [tag |-> tag, parent |-> 0, kids |-> <<>>,
     oif |-> oif, ofor |-> ofor, omodel |-> omodel, oclick |-> oclick,
     title |-> title, text |-> text,
     value |-> "", onInput |-> <<>>, onClick |-> <<>>,
     wasIf |-> NoExpr,          \* history: the o-if expression processIf found truthy
     madeFor |-> Undef]         \* history: the list item a clone was made for

Plain(tag, text) == El(tag, NoExpr, NoFor, NoExpr, NoExpr, <<>>, text)

Without(seq, x) == SelectSeq(seq, LAMBDA y : y # x)

\* node.remove()
Remove(d, n) ==
    LET p == d[n].parent IN
    IF p = 0 THEN d
    ELSE [d EXCEPT ![p].kids = Without(@, n), ![n].parent = 0]

\* appendChild putting the child first instead of last: a faulty variant
\* C11 must tell apart
PrependChild(d, p, c) == [d EXCEPT ![p].kids = <<c>> \o @, ![c].parent = p]

\* parent.appendChild(c), c having no parent
AppendChild(d, p, c) == [d EXCEPT ![p].kids = Append(@, c), ![c].parent = p]

\* The element descendants of n in document order (what querySelectorAll scans)
RECURSIVE Desc(_, _)
RECURSIVE DescOfAll(_, _)
Desc(d, n) == DescOfAll(d, d[n].kids)
DescOfAll(d, ks) ==
    IF ks = <<>> THEN <<>>
    ELSE <<Head(ks)>> \o Desc(d, Head(ks)) \o DescOfAll(d, Tail(ks))

\* The elements of a sequence
Range(seq) == {seq[i] : i \in 1..Len(seq)}

\* n is in the document: under the container
RECURSIVE Attached(_, _)
Attached(d, n) ==
    IF n = Container THEN TRUE
    ELSE IF d[n].parent = 0 THEN FALSE
    ELSE Attached(d, d[n].parent)

\* The top of the tree n is in
RECURSIVE Top(_, _)
Top(d, n) == IF d[n].parent = 0 THEN n ELSE Top(d, d[n].parent)

\* A node nothing refers to any more
Gone == Plain("", <<>>)

\* Garbage collection: a tree that is neither the document's nor holds the
\* root of a registered render closure can never be reached again (its
\* listeners cannot fire, no subscriber walks it); its nodes are forgotten.
\* Forgotten nodes at the end of the node table free their ids.
RECURSIVE Compact(_)
Compact(d) ==
    IF Len(d) > 1 /\ d[Len(d)] = Gone THEN Compact(SubSeq(d, 1, Len(d) - 1)) ELSE d

Collect(d, hs) ==
    LET tops == {Container} \cup {Top(d, hs[i]) : i \in 1..Len(hs)} IN
    Compact(<<>> \o [n \in 1..Len(d) |-> IF Top(d, n) \in tops THEN d[n] ELSE Gone])

\* n.cloneNode(true): the copy gets the next ids; attributes and text are
\* copied, listeners are not.  The result is [d, id].
RECURSIVE CloneNode(_, _)
RECURSIVE CloneKids(_, _, _)
CloneNode(d, n) ==
    [d  |-> CloneKids(Append(d, [d[n] EXCEPT !.parent = 0, !.kids = <<>>,
                                             !.onInput = <<>>, !.onClick = <<>>]),
                      d[n].kids, Len(d) + 1),
     id |-> Len(d) + 1]
AttachClone(c, p) == AppendChild(c.d, p, c.id)
CloneKids(d, ks, p) ==
    IF ks = <<>> THEN d
    ELSE CloneKids(AttachClone(CloneNode(d, Head(ks)), p), Tail(ks), p)

-----------------------------------------------------------------------------
(* interpolate (lines 76-99) *)

\* text.replace(/\{\{\s*(.+?)\s*\}\}/g, ...) on a text or attribute value
InterpPieces(st, gl, ps) ==
    [i \in 1..Len(ps) |->
        IF IsPh(ps[i]) THEN Shown(evalInContext(st, gl, PhTable[ps[i]])) ELSE ps[i]]

\* interpolate(root): the text and the attributes of root and of all below it
interpolate(d, st, gl, root) ==
    LET under == {root} \cup Range(Desc(d, root)) IN
    <<>> \o [n \in 1..Len(d) |->
        IF n \in under
        THEN [d[n] EXCEPT !.text = InterpPieces(st, gl, @),
                          !.title = InterpPieces(st, gl, @)]
        ELSE d[n]]

-----------------------------------------------------------------------------
(* processIf (lines 102-113), bindModel (170-186), bindClick (189-203) *)

processIf(d, st, gl, n) ==
    LET ifExpr == d[n].oif IN
    IF Missing(ifExpr) THEN d
    ELSE IF ~Truthy(evalInContext(st, gl, ifExpr)) THEN Remove(d, n)
    ELSE [d EXCEPT ![n].oif = NoExpr, ![n].wasIf = ifExpr]

InputTags == {"INPUT", "TEXTAREA", "SELECT"}

\* bindModel leaving the o-model attribute in place: a faulty variant C13
\* must tell apart
bindModelKeepsAttribute(d, st, gl, n) ==
    LET model == d[n].omodel
        cur   == evalInContext(st, gl, model)
    IN
    IF Missing(model) \/ d[n].tag \notin InputTags THEN d
    ELSE [d EXCEPT ![n].value = IF Nullish(cur) THEN "" ELSE JsString(cur),
                   ![n].onInput = Append(@, model)]

bindModel(d, st, gl, n) ==
    LET model == d[n].omodel
        cur   == evalInContext(st, gl, model)
    IN
    IF Missing(model) THEN d
    ELSE IF d[n].tag \in InputTags
    THEN [d EXCEPT ![n].value = IF Nullish(cur) THEN "" ELSE JsString(cur),
                   ![n].onInput = Append(@, model),
                   ![n].omodel = NoExpr]
    ELSE [d EXCEPT ![n].omodel = NoExpr]

bindClick(d, n) ==
    LET clickExpr == d[n].oclick IN
    IF Missing(clickExpr) THEN d
    ELSE [d EXCEPT ![n].onClick = Append(@, clickExpr), ![n].oclick = NoExpr]

\* root.querySelectorAll('[attr]'): the descendants carrying the attribute
SelFor(d, root)   == SelectSeq(Desc(d, root), LAMBDA n : d[n].ofor.k # "none")
SelIf(d, root)    == SelectSeq(Desc(d, root), LAMBDA n : d[n].oif.k # "none")
SelModel(d, root) == SelectSeq(Desc(d, root), LAMBDA n : d[n].omodel.k # "none")
SelClick(d, root) == SelectSeq(Desc(d, root), LAMBDA n : d[n].oclick.k # "none")

RECURSIVE EachIf(_, _, _, _)
EachIf(d, st, gl, ns) ==
    IF ns = <<>> THEN d ELSE EachIf(processIf(d, st, gl, Head(ns)), st, gl, Tail(ns))

RECURSIVE EachModel(_, _, _, _)
EachModel(d, st, gl, ns) ==
    IF ns = <<>> THEN d ELSE EachModel(bindModel(d, st, gl, Head(ns)), st, gl, Tail(ns))

RECURSIVE EachClick(_, _)
EachClick(d, ns) ==
    IF ns = <<>> THEN d ELSE EachClick(bindClick(d, Head(ns)), Tail(ns))

-----------------------------------------------------------------------------
(* processFor (lines 116-167) and processDirectives (206-236).  W is the   *)
(* world a first pass works on: the DOM, the subscriber list, and whether  *)
(* an exception is propagating (threw); log is the history of the passes   *)
(* run so far.                                                             *)

World(d, hs, threw) == [dom |-> d, handlers |-> hs, threw |-> threw, log |-> <<>>]

\* An entry of the history W.log: a pass of processDirectives started on root
Step(pass, root) == [pass |-> pass, root |-> root]

\* new Function(itemName, 'state', 'data', ...): a later parameter of the
\* same name wins, so state and data are the proxy and its data whatever
\* the loop variable is called
ItemParams(st, itemName, item) ==
    [n \in {itemName, "state", "data"} |->
        IF n \in DOMAIN BaseParams(st) THEN BaseParams(st)[n] ELSE item]

\* Lines 138-145 on one piece of a text node.  The first replace takes every
\* placeholder whose expression starts with the loop variable's name and puts
\* the value of that expression, '' if undefined or if it threw.  (It also
\* takes a placeholder whose first identifier merely begins with that name;
\* the value it puts is then the one interpolate would put in the same pass.)
\* The second replace puts String(item) for a remaining {{ item }}.
ForText(st, gl, itemName, item, piece) ==
    LET e  == PhTable[piece]
        r  == RunExpr(st, gl, ItemParams(st, itemName, item), e)
        s1 == IF IsPh(piece) /\ e.k = "path" /\ Head(e.p) = itemName
              THEN (IF r.ok THEN Shown(r.v) ELSE "")
              ELSE piece
    IN IF IsPh(s1) /\ PhTable[s1] = Path(<<itemName>>) THEN JsString(item) ELSE s1

\* Lines 150-157 on one piece of an attribute value: the loop variable's name
\* and the ONE character after it are replaced by the value of that text
\* as an expression: "item." does not compile and gives '', "item " gives
\* the value of item.
ForAttr(st, gl, itemName, item, piece) ==
    LET e == PhTable[piece]
        r == RunExpr(st, gl, ItemParams(st, itemName, item), Path(<<itemName>>))
    IN
    IF ~(IsPh(piece) /\ e.k = "path" /\ Head(e.p) = itemName) THEN piece
    ELSE IF Len(e.p) >= 2 THEN PhString(Path(Tail(e.p)))
    ELSE "{{ " \o (IF r.ok THEN Shown(r.v) ELSE "") \o "}}"

\* The same replacement on a directive attribute whose expression is a path
\* starting with the loop variable: "item.a.b" becomes "a.b"
ForDirective(itemName, e) ==
    IF e.k = "path" /\ Len(e.p) >= 2 /\ Head(e.p) = itemName
    THEN Path(Tail(e.p)) ELSE e

\* Lines 133-161: the TreeWalker's nodes are those below the clone (the
\* clone's own text node included, the clone element itself not)
RewriteClone(d, st, gl, c, itemName, item) ==
    LET below == Range(Desc(d, c)) IN
    <<>> \o [n \in 1..Len(d) |->
        IF n = c
        THEN [d[n] EXCEPT !.text = [i \in 1..Len(@) |-> ForText(st, gl, itemName, item, @[i])],
                          !.madeFor = item]
        ELSE IF n \in below
        THEN [d[n] EXCEPT
                !.text  = [i \in 1..Len(@) |-> ForText(st, gl, itemName, item, @[i])],
                !.title = [i \in 1..Len(@) |-> ForAttr(st, gl, itemName, item, @[i])],
                !.oif = ForDirective(itemName, @),
                !.omodel = ForDirective(itemName, @),
                !.oclick = ForDirective(itemName, @),
                !.ofor = [@ EXCEPT !.list = ForDirective(itemName, @)]]
        ELSE d[n]]

\* The passes of processDirectives after the o-for pass (lines 227-230)
IfPass(d, st, gl, root)    == EachIf(d, st, gl, SelIf(d, root))
ModelPass(d, st, gl, root) == EachModel(d, st, gl, SelModel(d, root))
ClickPass(d, root)         == EachClick(d, SelClick(d, root))

\* The statements of lines 227, 229, 230, 232 and 235 on a world
IfStep(W, st, gl, root) ==
    [W EXCEPT !.dom = IfPass(@, st, gl, root), !.log = Append(@, Step("if", root))]
ModelStep(W, st, gl, root) ==
    [W EXCEPT !.dom = ModelPass(@, st, gl, root), !.log = Append(@, Step("model", root))]
ClickStep(W, root) ==
    [W EXCEPT !.dom = ClickPass(@, root), !.log = Append(@, Step("click", root))]
InterpolateStep(W, st, gl, root) ==
    [W EXCEPT !.dom = interpolate(@, st, gl, root),
              !.log = Append(@, Step("interpolate", root))]
Register(W, root) ==
    [W EXCEPT !.handlers = Append(@, root), !.log = Append(@, Step("register", root))]

\* Lines 227-235 with the callback registered first: a faulty variant C15
\* must tell apart
AfterForsRegistersFirst(W, st, gl, root) ==
    IF W.threw THEN W
    ELSE InterpolateStep(
            ClickStep(ModelStep(IfStep(Register(W, root), st, gl, root), st, gl, root), root),
            st, gl, root)

\* Lines 227-235, unless the o-for pass threw
AfterFors(W, st, gl, root) ==
    IF W.threw THEN W
    ELSE Register(
            InterpolateStep(
                ClickStep(ModelStep(IfStep(W, st, gl, root), st, gl, root), root),
                st, gl, root),
            root)

RECURSIVE processDirectives(_, _, _, _)

\* Lines 127-164 for one item, c being [d, id] of the fresh clone: rewrite
\* it, append it to the parent, run its directives
CloneItem(W, st, gl, c, parent, itemName, item) ==
    processDirectives(
        [W EXCEPT !.dom = AppendChild(RewriteClone(c.d, st, gl, c.id, itemName, item),
                                      parent, c.id)],
        st, gl, c.id)

\* list.forEach((item) => {...}) of processFor: tmpl is the removed original,
\* which equals the template cloned from it at line 124
RECURSIVE EachItem(_, _, _, _, _, _, _)
EachItem(W, st, gl, tmpl, parent, itemName, items) ==
    IF items = <<>> \/ W.threw THEN W
    ELSE EachItem(CloneItem(W, st, gl, CloneNode(W.dom, tmpl), parent, itemName, Head(items)),
                  st, gl, tmpl, parent, itemName, Tail(items))

\* processFor from line 122 on, f being the parsed attribute and lv the
\* value of its list expression
ExpandFor(W, st, gl, n, f, lv) ==
    IF Truthy(lv) /\ lv.t # "list"                     \* (lv || []).forEach
    THEN [W EXCEPT !.dom = Remove(@, n), !.threw = TRUE]    \* is not a function
    ELSE EachItem([W EXCEPT !.dom = Remove(@, n)], st, gl, n, W.dom[n].parent, f.item,
                  IF Truthy(lv) THEN lv.l ELSE <<>>)

processFor(W, st, gl, n) ==
    IF W.dom[n].ofor.k # "for" THEN W          \* no attribute, or no match
    ELSE ExpandFor(W, st, gl, n, W.dom[n].ofor, evalInContext(st, gl, W.dom[n].ofor.list))

RECURSIVE EachFor(_, _, _, _)
EachFor(W, st, gl, ns) ==
    IF ns = <<>> \/ W.threw THEN W
    ELSE EachFor(processFor(W, st, gl, Head(ns)), st, gl, Tail(ns))

processDirectives(W, st, gl, root) ==
    AfterFors(EachFor([W EXCEPT !.log = Append(@, Step("for", root))],
                      st, gl, SelFor(W.dom, root)),
              st, gl, root)

-----------------------------------------------------------------------------
(* render (lines 208-222) and notify (line 20) *)

\* The o-if loop of render on one node
RenderIf(d, st, gl, n) ==
    IF Truthy(evalInContext(st, gl, d[n].oif))
    THEN [d EXCEPT ![n].oif = NoExpr]
    ELSE IF d[n].parent # 0 THEN Remove(d, n)
    ELSE d

RECURSIVE EachRenderIf(_, _, _, _)
EachRenderIf(d, st, gl, ns) ==
    IF ns = <<>> THEN d
    ELSE EachRenderIf(RenderIf(d, st, gl, Head(ns)), st, gl, Tail(ns))

RenderIfPass(d, st, gl, root) == EachRenderIf(d, st, gl, SelIf(d, root))

\* A render that runs the whole first pass again: a faulty variant C12 must
\* tell apart
renderRerunsFirstPass(d, st, gl, root) ==
    processDirectives(World(d, <<>>, FALSE), st, gl, root).dom

render(d, st, gl, root) ==
    RenderIfPass(ModelPass(interpolate(d, st, gl, root), st, gl, root), st, gl, root)

\* One call of a subscriber, as the history records it: which one (its index
\* in handlers) and the store it found
Call(i, st) == [h |-> i, saw |-> st]

\* handlers.forEach(h => h()) from the i-th on: N is [dom, calls]
RECURSIVE NotifyFrom(_, _, _, _, _)
NotifyFrom(N, st, gl, hs, i) ==
    IF i > Len(hs) THEN N
    ELSE NotifyFrom([dom |-> render(N.dom, st, gl, hs[i]),
                     calls |-> Append(N.calls, Call(i, st))],
                    st, gl, hs, i + 1)

\* notify with the first subscriber skipped: a faulty variant C1 must tell apart
notifySkipsFirst(N, st, gl, hs) == NotifyFrom(N, st, gl, hs, 2)

notify(N, st, gl, hs) == NotifyFrom(N, st, gl, hs, 1)

\* notify() k times in a row
RECURSIVE NotifyTimes(_, _, _, _, _)
NotifyTimes(N, st, gl, hs, k) ==
    IF k = 0 THEN N ELSE NotifyTimes(notify(N, st, gl, hs), st, gl, hs, k - 1)

-----------------------------------------------------------------------------
(* Inputs: the markup of the components, the content payload, the values   *)
(* written by the page's own scripts and typed by the user.                *)

Tpl(parent, node) == [parent |-> parent, node |-> node]

\* <button o-click="theme = 'dark'"> <button o-click="welcome = 'bye'">
\* <button o-click="user.name = 'x'">
ClickTpl ==
    << Tpl(0, El("BUTTON", NoExpr, NoFor, NoExpr, Assign(<<"theme">>, Str("dark")), <<>>, <<>>)),
       Tpl(0, El("BUTTON", NoExpr, NoFor, NoExpr, Assign(<<"welcome">>, Str("bye")), <<>>, <<>>)),
       Tpl(0, El("BUTTON", NoExpr, NoFor, NoExpr, Assign(<<"user", "name">>, Str("x")), <<>>, <<>>)) >>

\* <input o-model="welcome"> <input o-model="user.name"> <p>{{ welcome }}</p>
ModelTpl ==
    << Tpl(0, El("INPUT", NoExpr, NoFor, Path(<<"welcome">>), NoExpr, <<>>, <<>>)),
       Tpl(0, El("INPUT", NoExpr, NoFor, Path(<<"user", "name">>), NoExpr, <<>>, <<>>)),
       Tpl(0, Plain("P", <<"{{ welcome }}">>)) >>

\* <div o-if="show">{{ welcome }}<p o-if="flag"></p></div> <div o-if=""></div>
\* <span o-if="user.name"></span>
IfTpl ==
    << Tpl(0, El("DIV", Path(<<"show">>), NoFor, NoExpr, NoExpr, <<>>, <<"{{ welcome }}">>)),
       Tpl(1, El("P", Path(<<"flag">>), NoFor, NoExpr, NoExpr, <<>>, <<>>)),
       Tpl(0, El("DIV", EmptyExpr, NoFor, NoExpr, NoExpr, <<>>, <<>>)),
       Tpl(0, El("SPAN", Path(<<"user", "name">>), NoFor, NoExpr, NoExpr, <<>>, <<>>)) >>

\* <ul><li o-for="item in LIST">{{ item.name }}<span title="{{ item.name }}"></span></li></ul>
\* <p o-if="show">{{ welcome }}</p>
ForTpl(list) ==
    << Tpl(0, Plain("UL", <<>>)),
       Tpl(1, El("LI", NoExpr, For("item", Path(<<list>>)), NoExpr, NoExpr, <<>>, <<"{{ item.name }}">>)),
       Tpl(2, El("SPAN", NoExpr, NoFor, NoExpr, NoExpr, <<"{{ item.name }}">>, <<>>)),
       Tpl(0, El("P", Path(<<"show">>), NoFor, NoExpr, NoExpr, <<>>, <<"{{ welcome }}">>)) >>

\* The fallback markup of loadRoute's catch (line 58)
NotFoundTpl == << Tpl(0, Plain("DIV", <<"Page not found">>)) >>

Templates ==
    {ClickTpl, ModelTpl, IfTpl} \cup {ForTpl(l) : l \in {"items", "count"}}

Routes == {"home", "about"}

\* data/content.json
Payload ==
    Obj([welcome |-> Str("hi"), show |-> Str("yes"), flag |-> Str("yes"),
         items |-> List(<<Obj([name |-> Str("A")]), Obj([name |-> Str("B")])>>),
         count |-> Num("5"), site |-> Obj([title |-> Str("T")])])

\* container.innerHTML = html: the old children leave the document, the
\* markup's elements are created below the container
SetInner(d, tpl) ==
    LET base == Len(d)
        id(i) == IF i = 0 THEN Container ELSE base + i
        kidsOf(i) == SelectSeq([j \in 1..Len(tpl) |-> j], LAMBDA j : tpl[j].parent = i)
        old == {d[Container].kids[i] : i \in 1..Len(d[Container].kids)}
        d1 == [n \in 1..Len(d) |->
                 IF n \in old THEN [d[n] EXCEPT !.parent = 0]
                 ELSE IF n = Container
                 THEN [d[n] EXCEPT !.kids = [k \in 1..Len(kidsOf(0)) |-> id(kidsOf(0)[k])]]
                 ELSE d[n]]
    IN d1 \o [i \in 1..Len(tpl) |->
                 [tpl[i].node EXCEPT
                    !.parent = id(tpl[i].parent),
                    !.kids = [k \in 1..Len(kidsOf(i)) |-> id(kidsOf(i)[k])]]]

-----------------------------------------------------------------------------
(* The state machine *)

DataReq == [kind |-> "data", route |-> "", id |-> 0]
RouteReq(r, id) == [kind |-> "route", route |-> r, id |-> id]

\* What the latest operation did: the operation, the node, field and
\* expression it was about, the value written or typed, the notification
\* rounds it ran and the subscriber calls of those rounds in order, whether
\* an exception left the handler (threw) or was caught inside it (caught).
\* For a route load, node is the last node id before it (the markup's i-th
\* element got the id node + i), tpl the markup loadRoute received and log
\* the passes its first pass ran, in order.
Last(op, node, key, expr, val, rounds, calls, threw, caught) ==
    [op |-> op, node |-> node, key |-> key, expr |-> expr, val |-> val,
     rounds |-> rounds, calls |-> calls, threw |-> threw, caught |-> caught,
     tpl |-> <<>>, log |-> <<>>]

\* The state once init() has returned (lines 253-280): the store as
\* constructed (lines 12-16), the content fetch and the fetch of the initial
\* route's component both in flight.
Init ==
    /\ state = Obj([data |-> Obj(NoProps), route |-> Str("home"), theme |-> Str("light")])
    /\ globals = NoProps
    /\ handlers = <<>>
    /\ dom = << Plain("DIV", <<>>) >>
    /\ pending = {DataReq, RouteReq("home", 1)}
    /\ loads = 1
    /\ shown = ""
    /\ last = Last("init", 0, "", NoExpr, Undef, 0, <<>>, FALSE, FALSE)

NoCalls(d) == [dom |-> d, calls |-> <<>>]

\* The proxy's set trap (lines 23-27): target[prop] = value; notify()
TrapNotify(st, gl, d, hs) == [st |-> st, N |-> notify(NoCalls(d), st, gl, hs)]
proxySet(st, gl, d, hs, prop, value) == TrapNotify(ProxySet(st, prop, value), gl, d, hs)

\* OLLYSPA.state.f = v by the page's scripts: a field the store does not
\* have yet, and the data replaced by a content with a shorter list
Writes ==
    { <<"item", Str("dark")>>,
      <<"data", Obj([items |-> List(<<Obj([name |-> Str("A")])>>)])>> }

Write(f, v) ==
    \E T \in {proxySet(state, globals, dom, handlers, f, v)} :
       /\ state' = T.st
       /\ dom' = Collect(T.N.dom, handlers)
       /\ last' = Last("write", 0, f, NoExpr, v, 1, T.N.calls, FALSE, FALSE)
       /\ UNCHANGED <<globals, handlers, pending, loads, shown>>

\* OLLYSPA.state.data.k = v by the page's scripts: the proxy has no get trap,
\* state.data is the data object itself and the write a plain property write
DataWrites ==
    { <<"show", Str("")>> }

dataSet(st, k, v) == IF st.o["data"].t = "obj" THEN SetAt(st, <<"data", k>>, v) ELSE st

WriteData(k, v) ==
    /\ state' = dataSet(state, k, v)
    /\ last' = Last("writeData", 0, k, NoExpr, v, 0, <<>>, Nullish(state.o["data"]), FALSE)
    /\ UNCHANGED <<globals, handlers, dom, pending, loads, shown>>

\* loadData (lines 31-39) after its fetch: state.data = payload; notify()
loadData(st, gl, d, hs, payload) == TrapNotify(SetAt(st, <<"data">>, payload), gl, d, hs)

\* The content fetch resolves with the payload, or fails (caught, logged)
LoadDataDone(ok) ==
    /\ DataReq \in pending
    /\ pending' = pending \ {DataReq}
    /\ \E T \in {IF ok THEN loadData(state, globals, dom, handlers, Payload)
                 ELSE [st |-> state, N |-> NoCalls(dom)]} :
          /\ state' = T.st
          /\ dom' = Collect(T.N.dom, handlers)
          /\ last' = Last("loadData", 0, "data", NoExpr, T.st.o["data"],
                          IF ok THEN 1 ELSE 0, T.N.calls, FALSE, ~ok)
    /\ UNCHANGED <<globals, handlers, loads, shown>>

\* The hashchange listener aborting the route fetches in flight: a faulty
\* variant C16 must tell apart
HashChangeCancels(r) ==
    /\ loads < MaxLoads
    /\ r # state.o["route"].s
    /\ state' = SetAt(state, <<"route">>, Str(r))
    /\ pending' = (pending \cap {DataReq}) \cup {RouteReq(r, loads + 1)}
    /\ loads' = loads + 1
    /\ last' = Last("hashchange", 0, r, NoExpr, Str(r), 0, <<>>, FALSE, FALSE)
    /\ UNCHANGED <<globals, handlers, dom, shown>>

\* The hashchange listener (lines 261-264): state.route is set on the record
\* itself, loadRoute starts its fetch
HashChange(r) ==
    /\ loads < MaxLoads
    /\ r # state.o["route"].s
    /\ state' = SetAt(state, <<"route">>, Str(r))
    /\ pending' = pending \cup {RouteReq(r, loads + 1)}
    /\ loads' = loads + 1
    /\ last' = Last("hashchange", 0, r, NoExpr, Str(r), 0, <<>>, FALSE, FALSE)
    /\ UNCHANGED <<globals, handlers, dom, shown>>

\* The catch of loadRoute (lines 57-60)
CatchRoute(W) == IF W.threw THEN [W EXCEPT !.dom = SetInner(@, NotFoundTpl)] ELSE W

\* loadRoute after its fetch (lines 52-60): the response is the markup tpl,
\* or is not ok.  threw tells that an exception left processDirectives.
loadRoute(d, hs, st, gl, ok, tpl) ==
    IF ok THEN CatchRoute(processDirectives(World(SetInner(d, tpl), hs, FALSE), st, gl, Container))
    ELSE World(SetInner(d, NotFoundTpl), hs, FALSE)

RouteDone(req, ok, tpl) ==
    /\ req \in pending /\ req.kind = "route"
    /\ pending' = pending \ {req}
    /\ \E W \in {loadRoute(dom, handlers, state, globals, ok, tpl)} :
          /\ handlers' = W.handlers
          /\ dom' = Collect(W.dom, W.handlers)
          /\ last' = [Last("route", Len(dom), req.route, NoExpr, Undef, 0, <<>>,
                           W.threw, ~ok \/ W.threw)
                      EXCEPT !.tpl = IF ok THEN tpl ELSE <<>>, !.log = W.log]
    /\ shown' = req.route
    /\ UNCHANGED <<state, globals, loads>>

\* What an event's listeners have done so far
Ev(st, gl, d, calls, rounds, threw, caught) ==
    [st |-> st, gl |-> gl, dom |-> d, calls |-> calls, rounds |-> rounds,
     threw |-> threw, caught |-> caught]

EventObj == Obj(NoProps)

WithCalls(E, N) == [E EXCEPT !.dom = N.dom, !.calls = N.calls]

\* notify() k times for a listener, the store being E.st
Notified(E, hs, k) ==
    WithCalls([E EXCEPT !.rounds = @ + k],
              NotifyTimes([dom |-> E.dom, calls |-> E.calls], E.st, E.gl, hs, k))

\* A listener after its assignment a ran: the set trap notified a.sets
\* times while it ran, the listener's own notify() follows; if it threw,
\* nothing of that happened
AfterAssign(E, hs, a) ==
    IF a.threw THEN E
    ELSE Notified([E EXCEPT !.st = a.st, !.gl = a.gl], hs, a.sets + 1)

ClickParams(st) ==
    [n \in {"event", "state", "data"} |-> IF n = "event" THEN EventObj ELSE BaseParams(st)[n]]

\* What the try block of a click listener does (lines 194-196)
ClickTry(E, hs, e) ==
    IF e.k = "assign"
    THEN AfterAssign(E, hs, RunAssign(E.st, E.gl, ClickParams(E.st), e.p, e.v))
    ELSE IF RunExpr(E.st, E.gl, ClickParams(E.st), e).ok THEN Notified(E, hs, 1)
    ELSE E

\* Whether it throws
ClickThrows(E, e) ==
    IF e.k = "assign" THEN RunAssign(E.st, E.gl, ClickParams(E.st), e.p, e.v).threw
    ELSE ~RunExpr(E.st, E.gl, ClickParams(E.st), e).ok

\* One click listener (lines 192-200): what is thrown is caught and logged
ClickListener(E, hs, e) ==
    IF ClickThrows(E, e) THEN [E EXCEPT !.caught = TRUE] ELSE ClickTry(E, hs, e)

RECURSIVE ClickListeners(_, _, _)
ClickListeners(E, hs, es) ==
    IF es = <<>> THEN E
    ELSE ClickListeners(ClickListener(E, hs, Head(es)), hs, Tail(es))

\* The user clicks element n
Click(n) ==
    /\ Attached(dom, n)
    /\ dom[n].onClick # <<>>
    /\ \E E \in {ClickListeners(Ev(state, globals, dom, <<>>, 0, FALSE, FALSE),
                                handlers, dom[n].onClick)} :
          /\ state' = E.st
          /\ globals' = E.gl
          /\ dom' = Collect(E.dom, handlers)
          /\ last' = Last("click", n, "", dom[n].onClick[1], dom[n].onClick[1].v,
                          E.rounds, E.calls, E.threw, E.caught)
    /\ UNCHANGED <<handlers, pending, loads, shown>>

InputParams(st, val) ==
    [n \in {"state", "data", "val"} |-> IF n = "val" THEN val ELSE BaseParams(st)[n]]

\* Whether  new Function(...)  or the assignment of an input listener throws
InputThrows(E, n, model) ==
    \/ model.k # "path"                                      \* does not compile
    \/ RunAssign(E.st, E.gl, InputParams(E.st, Str(E.dom[n].value)),
                 model.p, Str(E.dom[n].value)).threw

\* One input listener (lines 177-182): compile and run  model = val  with
\* val = node.value, then notify(); nothing is caught
InputListener(E, hs, n, model) ==
    IF InputThrows(E, n, model) THEN [E EXCEPT !.threw = TRUE]
    ELSE AfterAssign(E, hs, RunAssign(E.st, E.gl, InputParams(E.st, Str(E.dom[n].value)),
                                      model.p, Str(E.dom[n].value)))

RECURSIVE InputListeners(_, _, _, _)
InputListeners(E, hs, n, es) ==
    IF es = <<>> THEN E
    ELSE InputListeners(InputListener(E, hs, n, Head(es)), hs, n, Tail(es))

TypedValues == {"a"}

\* The user types s into input n: the control shows s, the input event fires
InputEvent(n, s) ==
    /\ Attached(dom, n)
    /\ dom[n].tag \in InputTags
    /\ dom[n].onInput # <<>>
    /\ \E E \in {InputListeners(Ev(state, globals, [dom EXCEPT ![n].value = s],
                                   <<>>, 0, FALSE, FALSE),
                                handlers, n, dom[n].onInput)} :
          /\ state' = E.st
          /\ globals' = E.gl
          /\ dom' = Collect(E.dom, handlers)
          /\ last' = Last("input", n, "", dom[n].onInput[1], Str(s),
                          E.rounds, E.calls, E.threw, E.caught)
    /\ UNCHANGED <<handlers, pending, loads, shown>>

Next ==
    \/ \E w \in Writes : Write(w[1], w[2])
    \/ \E w \in DataWrites : WriteData(w[1], w[2])
    \/ \E ok \in BOOLEAN : LoadDataDone(ok)
    \/ \E r \in Routes : HashChange(r)
    \/ \E req \in pending, tpl \in Templates : RouteDone(req, TRUE, tpl)
    \/ \E req \in pending : RouteDone(req, FALSE, NotFoundTpl)
    \/ \E n \in 1..Len(dom) : Click(n)
    \/ \E n \in 1..Len(dom), s \in TypedValues : InputEvent(n, s)

Spec == Init /\ [][Next]_vars

-----------------------------------------------------------------------------
(* The evaluator on its own: the page's scripts write fields of            *)
(* OLLYSPA.state, and expressions are evaluated in between.                *)

\* The fields written and the values written to them
EvalFields == {"data", "theme", "item"}
EvalValues == {Str("dark"), Null, Obj([theme |-> Str("blue")])}

\* theme, item, data, data.theme, state.theme
EvalExprs ==
    { Path(<<"theme">>), Path(<<"item">>), Path(<<"data">>),
      Path(<<"data", "theme">>), Path(<<"state", "theme">>) }

\* evalInContext(e) is called: last.val is what it returned, last.key still
\* the field of the latest Store write
Evaluate(e) ==
    /\ last' = Last("eval", 0, last.key, e, evalInContext(state, globals, e),
                    0, <<>>, FALSE, FALSE)
    /\ UNCHANGED <<state, globals, handlers, dom, pending, loads, shown>>

EvalNext ==
    \/ \E f \in EvalFields, v \in EvalValues : Write(f, v)
    \/ \E e \in EvalExprs : Evaluate(e)

EvalSpec == Init /\ [][EvalNext]_vars

-----------------------------------------------------------------------------
(* Interpolation over time: the initial loads, and writes of the page's   *)
(* scripts whose values may themselves hold the markers {{ }}.            *)

InterpWrites ==
    { <<"welcome", Str("{{ theme }}")>>, <<"welcome", Str("bye")>>,
      <<"theme", Str("dark")>> }

InterpTemplates == {ModelTpl, IfTpl, ForTpl("items")}

InterpNext ==
    \/ \E w \in InterpWrites : Write(w[1], w[2])
    \/ LoadDataDone(TRUE)
    \/ \E req \in pending, tpl \in InterpTemplates : RouteDone(req, TRUE, tpl)

InterpSpec == Init /\ [][InterpNext]_vars

-----------------------------------------------------------------------------
(* Properties *)

Nodes == 1..Len(dom)

\* n is an element of the rendered tree
Present(n) == n \in Nodes /\ Attached(dom, n)

\* How often the latest operation called subscriber i
TimesCalled(i) == Cardinality({j \in 1..Len(last.calls) : last.calls[j].h = i})

\* The calls of the latest operation are k rounds, each calling every
\* subscriber once in registration order, each call finding the store as it
\* is now
RoundsInOrder(k) ==
    /\ last.rounds = k
    /\ Len(last.calls) = k * Len(handlers)
    /\ \A j \in 1..Len(last.calls) :
          /\ last.calls[j].h = ((j - 1) % Len(handlers)) + 1
          /\ last.calls[j].saw = state

\* C1: a write of a top-level field through the store handle applies the
\* value (adding the field if it is unknown, without error) and then runs
\* exactly one notification round, calling every subscriber exactly once in
\* registration order before the write returns; so N writes are N rounds.
C1_WriteNotifiesAll ==
    last.op = "write" =>
        /\ HasProp(state, last.key)
        /\ state.o[last.key] = last.val
        /\ ~last.threw
        /\ RoundsInOrder(1)

\* C1 witness: a write of the unknown field "item" with three subscribers
C1_Witness ==
    /\ last.op = "write" /\ last.key = "item"
    /\ Len(handlers) >= 3
    /\ Len(last.calls) = Len(handlers)

\* C2: a click whose expression writes a Store field (theme = 'dark') causes
\* exactly one notification round, every subscriber running exactly once for
\* that click, and the written value is in the Store afterwards.
C2_ClickOneRound ==
    (last.op = "click" /\ last.expr.k = "assign" /\ last.expr.p = <<"theme">>) =>
        /\ last.rounds = 1
        /\ \A i \in 1..Len(handlers) : TimesCalled(i) = 1
        /\ state.o["theme"] = last.expr.v

\* What bindModel shows in a control for the path e (line 176)
ModelValue(e) ==
    LET cur == evalInContext(state, globals, e) IN
    IF Nullish(cur) THEN "" ELSE JsString(cur)

\* The input-like elements of the rendered tree that bindModel bound
BoundInputs == {n \in Nodes : /\ Attached(dom, n)
                              /\ dom[n].tag \in InputTags
                              /\ dom[n].onInput # <<>>}

\* C3: after every notification round, an input-like element that carried a
\* model directive at the first pass displays the current value of its bound
\* path (so a programmatic write of the path followed by a round shows in
\* the control).
C3_RoundSyncsInputs ==
    (last.rounds >= 1 /\ handlers # <<>>) =>
        \A n \in BoundInputs : dom[n].value = ModelValue(dom[n].onInput[1])

\* C4: after every notification round, no element whose if condition was
\* truthy at the first pass and is falsy now is still in the rendered tree.
C4_RoundDetachesFalsyIf ==
    (last.rounds >= 1 /\ handlers # <<>>) =>
        \A n \in Nodes :
            (Attached(dom, n) /\ dom[n].wasIf # NoExpr)
                => Truthy(evalInContext(state, globals, dom[n].wasIf))

\* The markup elements of the latest route load that carried an if directive
IfElements == {i \in 1..Len(last.tpl) : last.tpl[i].node.oif.k # "none"}

\* C5: right after the first pass over a root, every element under it that
\* carried an if directive is in the rendered tree iff its expression
\* evaluated truthy (a failed evaluation counting as falsy), and every
\* retained one has lost the directive attribute.
C5_IfPresentIffTruthy ==
    (last.op = "route" /\ ~last.threw) =>
        \A i \in IfElements :
            /\ Present(last.node + i)
                  <=> Truthy(evalInContext(state, globals, last.tpl[i].node.oif))
            /\ Present(last.node + i) => dom[last.node + i].oif = NoExpr

\* The markup elements of the latest route load that carry a for directive
\* whose list expression does not evaluate to a list
NonListFors ==
    {i \in 1..Len(last.tpl) :
        /\ last.tpl[i].node.ofor.k = "for"
        /\ evalInContext(state, globals, last.tpl[i].node.ofor.list).t # "list"}

\* C6: a for directive whose list expression evaluates to a non-list value
\* expands as for an empty list: the template element is removed, there are
\* no clones, no error escapes, and the rest of the first pass runs (the
\* root's subscriber is registered, the if directives are processed).
C6_NonListIsEmptyList ==
    (last.op = "route" /\ NonListFors # {}) =>
        /\ ~last.threw /\ ~last.caught
        /\ \A i \in NonListFors :
              /\ ~Present(last.node + i)
              /\ Present(last.node + last.tpl[i].parent)
              /\ dom[last.node + last.tpl[i].parent].kids = <<>>
        /\ handlers # <<>> /\ handlers[Len(handlers)] = Container
        /\ \A n \in Nodes : Attached(dom, n) => dom[n].oif = NoExpr

\* C7: a write to a property nested under data made through the store
\* handle (state.data.k = v) applies the value and calls every subscriber.
C7_DataWriteNotifies ==
    last.op = "writeData" =>
        /\ GetProp(state.o["data"], last.key) = last.val
        /\ \A i \in 1..Len(handlers) : TimesCalled(i) >= 1

\* The items of the list a for directive of the latest route load ran over
ItemsOf(i) == evalInContext(state, globals, last.tpl[i].node.ofor.list).l

\* The markup elements of the latest route load that carry a for directive
\* over a list, with the text {{ item.name }}, item being the loop variable
NamedFors ==
    {i \in 1..Len(last.tpl) :
        /\ last.tpl[i].node.ofor.k = "for"
        /\ evalInContext(state, globals, last.tpl[i].node.ofor.list).t = "list"
        /\ last.tpl[i].node.text = <<PhString(Path(<<last.tpl[i].node.ofor.item, "name">>))>>}

\* C8: inside a repeat body the loop variable is the innermost scope: it
\* shadows a data property or Store field of the same name, so the clone of
\* the j-th item shows that item's name whatever the store holds.
C8_LoopVariableInnermost ==
    (last.op = "route" /\ ~last.threw) =>
        \A i \in NamedFors :
            LET clones == dom[last.node + last.tpl[i].parent].kids IN
            /\ Len(clones) = Len(ItemsOf(i))
            /\ \A j \in 1..Len(clones) :
                  dom[clones[j]].text = <<Shown(GetProp(ItemsOf(i)[j], "name"))>>

\* C9: a failing evaluation in a click statement or in a model assignment on
\* user edit is caught where it occurs: no exception leaves the listener.
C9_NothingLeavesListener ==
    last.op \in {"click", "input"} => ~last.threw

\* C10: an input event assigns the control's displayed value to the bound
\* path, so that the path then evaluates to exactly that string, and a
\* notification round runs after the assignment.
C10_InputRoundTrip ==
    last.op = "input" =>
        /\ evalInContext(state, globals, last.expr) = last.val
        /\ last.rounds >= 1
        /\ \A i \in 1..Len(handlers) : TimesCalled(i) >= 1

\* The markup elements of the latest route load that carry a for directive
\* whose list expression evaluates to a list
ListFors ==
    {i \in 1..Len(last.tpl) :
        /\ last.tpl[i].node.ofor.k = "for"
        /\ evalInContext(state, globals, last.tpl[i].node.ofor.list).t = "list"}

\* The children of the parent of the i-th markup element of the latest load
SiblingsOf(i) == dom[last.node + last.tpl[i].parent].kids

\* C11: after the first pass, the parent of a for directive over a list
\* holds exactly one clone per list element, in list order, each a copy of
\* the template element in the document, and the template element itself is
\* no longer in the document.
C11_ClonesInListOrder ==
    (last.op = "route" /\ ~last.threw) =>
        \A i \in ListFors :
            /\ ~Present(last.node + i)
            /\ Len(SiblingsOf(i)) = Len(ItemsOf(i))
            /\ \A j \in 1..Len(SiblingsOf(i)) :
                  /\ Present(SiblingsOf(i)[j])
                  /\ dom[SiblingsOf(i)[j]].tag = last.tpl[i].node.tag
                  /\ dom[SiblingsOf(i)[j]].madeFor = ItemsOf(i)[j]

\* C11 witness: a list of two different items was expanded
C11_Witness ==
    /\ last.op = "route" /\ ~last.threw
    /\ \E i \in ListFors :
          /\ Len(ItemsOf(i)) = 2
          /\ ItemsOf(i)[1] # ItemsOf(i)[2]
          /\ Len(SiblingsOf(i)) = 2
          /\ dom[SiblingsOf(i)[1]].madeFor = ItemsOf(i)[1]
          /\ dom[SiblingsOf(i)[2]].madeFor = ItemsOf(i)[2]

\* The clones of repeat expansions in the rendered tree
Clones == {n \in Nodes : Attached(dom, n) /\ dom[n].madeFor # Undef}

\* C12: repeat expansion never runs again: a step that is not a route load
\* (a Store write, a write below data, the content load, a click, an input
\* event, each with the notification rounds it causes) leaves the rendered
\* clones exactly as they were, also when it changed the underlying list.
C12_ClonesStay ==
    [][last'.op # "route" => Clones' = Clones]_vars

\* C12 witness: two clones are rendered, a Store write has just replaced the
\* data by one whose list has a single element and notified the subscribers
C12_Witness ==
    /\ last.op = "write" /\ last.key = "data"
    /\ Len(last.calls) >= 3
    /\ Cardinality(Clones) = 2
    /\ evalInContext(state, globals, Path(<<"items">>)).t = "list"
    /\ Len(evalInContext(state, globals, Path(<<"items">>)).l) = 1

\* The markup elements of the latest route load that carry a click
\* directive, and those input-like ones that carry a model directive
ClickElements ==
    {i \in 1..Len(last.tpl) : ~Missing(last.tpl[i].node.oclick)}
ModelElements ==
    {i \in 1..Len(last.tpl) : /\ ~Missing(last.tpl[i].node.omodel)
                              /\ last.tpl[i].node.tag \in InputTags}

\* C13: an element that carried a click or model directive has exactly one
\* listener for it: the first pass attaches one and strips the attribute,
\* and nothing later (no notification round, no event) attaches another, so
\* a click runs the click expression once and an input event assigns once.
C13_OneListener ==
    /\ \A n \in Nodes :
          Attached(dom, n) =>
              /\ Len(dom[n].onClick) <= 1 /\ Len(dom[n].onInput) <= 1
              /\ dom[n].onClick # <<>> => dom[n].oclick = NoExpr
              /\ dom[n].onInput # <<>> => dom[n].omodel = NoExpr
    /\ (last.op = "route" /\ ~last.threw) =>
          /\ \A i \in ClickElements :
                Present(last.node + i) /\ Len(dom[last.node + i].onClick) = 1
          /\ \A i \in ModelElements :
                Present(last.node + i) /\ Len(dom[last.node + i].onInput) = 1
    /\ last.op = "click" => Len(dom[last.node].onClick) = 1
    /\ last.op = "input" => Len(dom[last.node].onInput) = 1

\* C13 witness: an input event ran its assignment and the rounds after it,
\* and the control still has its one listener
C13_Witness ==
    /\ last.op = "input" /\ ~last.threw
    /\ last.rounds >= 1 /\ Len(last.calls) >= 1
    /\ Len(dom[last.node].onInput) = 1
    /\ evalInContext(state, globals, last.expr) = last.val

\* The clones the latest route load made
NewClones == {n \in Nodes : n > last.node /\ dom[n].madeFor # Undef}

\* A route load whose fetch succeeded, so that the first pass ran on the
\* container
FirstPassRan == last.op = "route" /\ last.tpl # <<>>

\* The subscribers a step appended, given the list before and after it
Appended(before, after) == SubSeq(after, Len(before) + 1, Len(after))

\* C14: the subscriber list is append-only: no step removes or reorders a
\* subscriber (a route load that detaches the roots of earlier ones
\* included), a step that processes no root leaves the list as it is, and a
\* first pass appends exactly one render callback for each root it
\* processed: the container and every clone it made.
C14_AppendOnlyOnePerRoot ==
    [][ /\ Len(handlers') >= Len(handlers)
        /\ SubSeq(handlers', 1, Len(handlers)) = handlers
        /\ ~FirstPassRan' => handlers' = handlers
        /\ FirstPassRan' =>
              /\ Len(Appended(handlers, handlers')) = 1 + Cardinality(NewClones')
              /\ Range(Appended(handlers, handlers')) = NewClones' \cup {Container}
      ]_vars

\* The passes of processDirectives in the order of lines 225-235
PassOrder == <<"for", "if", "model", "click", "interpolate", "register">>

\* The passes the last first pass ran on root, in the order it ran them
PassesOn(root) ==
    LET steps == SelectSeq(last.log, LAMBDA e : e.root = root)
    IN  [i \in 1..Len(steps) |-> steps[i].pass]

\* The roots the last first pass registered, in the order it registered them
Registered ==
    LET steps == SelectSeq(last.log, LAMBDA e : e.pass = "register")
    IN  [i \in 1..Len(steps) |-> steps[i].root]

\* The positions of the history at which a pass ran on root
StepsOn(root) == {i \in 1..Len(last.log) : last.log[i].root = root}

\* C15: the first pass on a root runs o-for expansion, o-if pruning, o-model
\* binding, o-click binding and interpolation in this order and registers the
\* root's render callback after all five; the whole sequence of a clone,
\* registration included, runs during the o-for step of the loaded root, so
\* that the clone's callback precedes the root's in the subscriber list.
C15_PassOrder ==
    FirstPassRan =>
        /\ \A r \in {Container} \cup NewClones :
              /\ PassesOn(r) = SubSeq(PassOrder, 1, Len(PassesOn(r)))
              /\ ~last.threw => PassesOn(r) = PassOrder
        /\ \A c \in NewClones : \A i \in StepsOn(c) :
              /\ last.log[1] = Step("for", Container)
              /\ \A j \in StepsOn(Container) : j > 1 => i < j
        /\ Len(Registered) <= Len(handlers)
        /\ SubSeq(handlers, Len(handlers) - Len(Registered) + 1, Len(handlers))
              = Registered
        /\ \A i \in 1..Len(Registered) :
              Registered[i] = Container => i = Len(Registered)

\* C15 is exercised: a first pass made two clones and registered them before
\* the loaded root
C15_Witness ==
    /\ FirstPassRan
    /\ ~last.threw
    /\ Cardinality(NewClones) = 2
    /\ Len(last.log) = 18
    /\ Len(Registered) = 3
    /\ Registered[3] = Container

\* The route fetches in flight
RouteFetches == {req \in pending : req.kind = "route"}

\* The route the store names
CurrentRoute == state.o["route"].s

\* C16: a route load in flight is not cancelled by a later navigation, and
\* its response, whenever it arrives, replaces the displayed component by
\* that of its own route, also when the store names another route by then.
C16_LateResponseOverwrites ==
    [][ /\ last'.op = "hashchange" =>
              /\ RouteFetches \subseteq RouteFetches'
              /\ Cardinality(RouteFetches') = Cardinality(RouteFetches) + 1
        /\ last'.op = "route" =>
              \E req \in RouteFetches \ RouteFetches' :
                 /\ RouteFetches' = RouteFetches \ {req}
                 /\ shown' = req.route
                 /\ last'.key = req.route
      ]_vars

\* C16 is exercised: the response of the route left behind arrived after the
\* one of the current route and its component is what is displayed, no fetch
\* being in flight that could change this
C16_Witness ==
    /\ last.op = "route"
    /\ last.tpl # <<>>
    /\ ~last.threw
    /\ RouteFetches = {}
    /\ loads = 2
    /\ shown = "home"
    /\ CurrentRoute = "about"

\* What follows the Store field f in the path p, if p refers to that field:
\* as the bare name f not shadowed by a property of the data, as state.f, or
\* (f being data) as a bare name that is a property of the data
Below(p, f) ==
    IF p[1] = f /\ ~HasProp(state.o["data"], f) THEN <<Tail(p)>>
    ELSE IF p[1] = "state" /\ ~HasProp(state.o["data"], "state")
            /\ Len(p) > 1 /\ p[2] = f THEN <<Tail(Tail(p))>>
    ELSE IF f = "data" /\ HasProp(state.o["data"], p[1]) THEN <<p>>
    ELSE <<>>

\* C17: reads are never cached: an evaluation of an expression that refers
\* only to existing paths, made after a Store write to a path it refers to,
\* returns the value the write put there.
C17_ReadsReturnWritten ==
    /\ last.op = "write" => HasProp(state, last.key) /\ state.o[last.key] = last.val
    /\ last.op = "eval" /\ last.key # "" =>
          \A rest \in Range(Below(last.expr.p, last.key)) :
             Walk(state.o[last.key], rest).ok =>
                last.val = Walk(state.o[last.key], rest).v

\* The document d shows the markup tpl, whose i-th element has the id
\* base + i, as the store st has it: an element without directives directly
\* below the container has its placeholders replaced by the store's values,
\* and the parent of a for directive over a list has one child per element
ReflectsData(tpl, base, d, st, gl) ==
    /\ \A i \in 1..Len(tpl) :
          (/\ tpl[i].parent = 0
           /\ Missing(tpl[i].node.oif)
           /\ tpl[i].node.ofor.k = "none") =>
              /\ base + i \in 1..Len(d)
              /\ Attached(d, base + i)
              /\ d[base + i].text = InterpPieces(st, gl, tpl[i].node.text)
    /\ \A i \in 1..Len(tpl) :
          (/\ tpl[i].node.ofor.k = "for"
           /\ evalInContext(st, gl, tpl[i].node.ofor.list).t = "list") =>
              Len(d[base + tpl[i].parent].kids)
                 = Len(evalInContext(st, gl, tpl[i].node.ofor.list).l)

\* The content load succeeded and the component load, the initial one, gave
\* markup whose first pass completed
DataLoaded(l) == l.op = "loadData" /\ ~l.caught
RouteLoaded(l) == l.op = "route" /\ l.tpl # <<>> /\ ~l.threw

\* C18: whichever of the initial content load and the initial component load
\* completes first, once the second has completed the rendered component
\* reflects the loaded data: its interpolations show the loaded values and
\* each for directive has one clone per element of its list.
C18_BothLoadedReflectsData ==
    [][ /\ (DataLoaded(last) /\ RouteLoaded(last') /\ loads' = 1) =>
              ReflectsData(last'.tpl, last'.node, dom', state', globals')
        /\ (RouteLoaded(last) /\ DataLoaded(last') /\ loads' = 1) =>
              ReflectsData(last.tpl, last.node, dom', state', globals')
      ]_vars

\* The elements of the rendered tree before and after a step
Kept == {n \in Nodes : n <= Len(dom') /\ Attached(dom, n) /\ Attached(dom', n)}

\* C19: interpolation renders once and freezes: after the first pass no
\* notification round changes a text or an attribute value, whatever is
\* written to the Store and whatever string the first evaluation gave, and
\* interpolating the substituted text again changes nothing.
C19_InterpolationFreezes ==
    [][ /\ last'.op # "route" =>
              \A n \in Kept : /\ dom'[n].text = dom[n].text
                              /\ dom'[n].title = dom[n].title
        /\ interpolate(dom', state', globals', Container) = dom'
      ]_vars

\* The markup elements of the latest route load directly below its i-th
\* element, in document order; the m-th child of a clone of i is a copy of
\* the m-th of them
MarkupKids(i) ==
    SelectSeq([k \in 1..Len(last.tpl) |-> k], LAMBDA k : last.tpl[k].parent = i)

\* What a placeholder for the property name of the loop variable shows for
\* a list element
NameOf(item) == Shown(GetProp(item, "name"))

\* C20: for each list element of a for directive, an access item.name to the
\* loop variable inside an attribute value of the clone is replaced by the
\* value of that access for that element, exactly as in a text placeholder.
C20_AttributeAccessReplaced ==
    (last.op = "route" /\ ~last.threw) =>
        \A i \in ListFors :
            LET ph == <<PhString(Path(<<last.tpl[i].node.ofor.item, "name">>))>>
                clones == SiblingsOf(i)
            IN  \A j \in 1..Len(clones) :
                   \A m \in 1..Len(MarkupKids(i)) :
                      LET src == last.tpl[MarkupKids(i)[m]].node
                          copy == dom[dom[clones[j]].kids[m]]
                      IN  (Len(dom[clones[j]].kids) = Len(MarkupKids(i))) =>
                             (src.title = ph =>
                                 copy.title = <<NameOf(dom[clones[j]].madeFor)>>)

====
